---- MODULE Spec2Model ----
(***************************************************************************)
(* Model of lightly/api/api_workflow_download_dataset.py:                  *)
(*   _DownloadDatasetMixin.download_dataset (tag resolution, worker clamp,  *)
(*   the thread pool running lambda_ per item, the aggregate warning),      *)
(*   _make_dir_and_save_image, get_embedding_data_by_name,                  *)
(*   download_embeddings_csv and _get_latest_default_embedding_data.        *)
(*                                                                         *)
(* Python lists are TLA+ sequences; Python position i is element i + 1.    *)
(* Strings that the code inspects character by character (embedding names, *)
(* hexadecimal bitmasks) and paths are sequences of characters/components. *)
(***************************************************************************)
EXTENDS Integers, Sequences, FiniteSets, TLC

\* ------------------------------------------------------------------ bounds
NumSamples == 2          \* samples in the dataset on the server
MaxWorkersArg == 3       \* largest max_workers argument tried (smallest is -1)
MaxEmbeddings == 2       \* longest embedding list returned by the server
MaxCreatedAt == 2        \* created_at timestamps are 1..MaxCreatedAt

\* ------------------------------------------------------- program constants
PageSize == 25000        \* page_size of the sample-id listing

\* ------------------------------------------------------------ small helpers
Min(a, b) == IF a < b THEN a ELSE b
Max(a, b) == IF a > b THEN a ELSE b
Prefixes(p) == {SubSeq(p, 1, j) : j \in 1..Len(p)}

\* str.startswith
StartsWith(s, p) == Len(s) >= Len(p) /\ SubSeq(s, 1, Len(p)) = p

\* ------------------------------------------------------------ the server
AllSampleIds == <<"id_a", "id_b", "id_c", "id_d", "id_e">>
AllFilenames == << <<"d", "a.png">>, <<"d", "b.png">>, <<"c.png">>,
                   <<"e", "d.png">>, <<"e.png">> >>
ServerSampleIds == SubSeq(AllSampleIds, 1, NumSamples)
ServerFilenames == SubSeq(AllFilenames, 1, NumSamples)

output_dir == <<"out">>
output_path == <<"tmp", "embeddings.csv">>

HexDigits == <<"0", "1", "2", "3", "4", "5", "6", "7",
               "8", "9", "a", "b", "c", "d", "e", "f">>
HexMasks == {<<HexDigits[i]>> : i \in 1..16} \cup {<<"1", "0">>}

Tag(n, m) == [name |-> n, bit_mask_data |-> m]
NoTag == Tag("", <<>>)
TagLists ==
    {<<>>, <<Tag("sel", <<"1">>)>>}
    \cup {<<Tag("sel", <<"0">>), Tag("initial-tag", m), Tag("initial-tag", <<"0">>)>> :
            m \in HexMasks}
TagNames == {"initial-tag", "sel"}

default_prefix == <<"d", "e", "f", "a", "u", "l", "t">>
EmbNames == {default_prefix \o <<"_", "a">>, default_prefix \o <<"_", "b">>,
             <<"m", "y", "_">> \o default_prefix, <<"d", "e", "f">>}
Descriptor(i, n, t) == [id |-> i, name |-> n, created_at |-> t]
NoEmbedding == Descriptor(0, <<>>, 0)
EmbeddingLists ==
    UNION {{[i \in 1..n |-> Descriptor(i, f[i][1], f[i][2])] :
              f \in [1..n -> EmbNames \X (1..MaxCreatedAt)]} : n \in 0..MaxEmbeddings}

\* ------------------------------------------------------------------ state
VARIABLES
    op,             \* the public method being run
    img_type,       \* dataset.img_type on the server
    available_tags, \* the dataset's tag list on the server
    tag_name,       \* argument of download_dataset
    max_workers,    \* argument of download_dataset
    verbose,        \* argument of download_dataset
    embeddings,     \* the dataset's embedding list on the server
    emb_name,       \* argument of get_embedding_data_by_name
    pc,             \* position of the calling thread
    raised,         \* exception that left the method, "none" if none
    calls,          \* API and download calls made by the calling thread, in order
    tag,            \* the tag matched by name
    sample_ids,     \* local sample_ids
    indices,        \* local indices
    filenames,      \* local filenames
    pool_size,      \* max_workers handed to ThreadPoolExecutor (0 before)
    ipc,            \* position of the task of each submitted item
    mints,          \* signed-URL minting calls per item
    fetches,        \* HTTP GETs per item
    attempts,       \* times lambda_ was entered per item
    future,         \* value returned by lambda_ per item
    results,        \* local results
    warnings,       \* warnings emitted, in order
    dirs,           \* directories on disk
    files,          \* files on disk: records of a path and "full" or "partial" content
    pbar_n,         \* pbar.n
    tqdm_lock,      \* holder of the tqdm lock, 0 when free
    lock_ops,       \* acquire/release calls on the tqdm lock
    returned        \* value returned by the embedding helpers

vars == <<op, img_type, available_tags, tag_name, max_workers, verbose, embeddings,
          emb_name, pc, raised, calls, tag, sample_ids, indices, filenames,
          pool_size, ipc, mints, fetches, attempts, future, results, warnings,
          dirs, files, pbar_n, tqdm_lock, lock_ops, returned>>

inputs == <<op, img_type, available_tags, tag_name, max_workers, verbose,
            embeddings, emb_name>>
resolution == <<tag, sample_ids, indices, filenames>>
pool == <<pool_size, ipc, mints, fetches, attempts, future, results>>
progress == <<pbar_n, tqdm_lock, lock_ops>>
disk == <<dirs, files>>

Items == 1..Len(filenames)

InitLocals ==
    /\ raised = "none"
    /\ calls = <<>>
    /\ tag = NoTag
    /\ sample_ids = <<>>
    /\ indices = <<>>
    /\ filenames = <<>>
    /\ pool_size = 0
    /\ ipc = <<>>
    /\ mints = <<>>
    /\ fetches = <<>>
    /\ attempts = <<>>
    /\ future = <<>>
    /\ results = <<>>
    /\ warnings = <<>>
    /\ files = {}
    /\ pbar_n = 0
    /\ tqdm_lock = 0
    /\ lock_ops = 0
    /\ returned = NoEmbedding

InitDownload ==
    /\ op = "download_dataset"
    /\ img_type \in {"FULL", "THUMBNAIL"}
    /\ available_tags \in TagLists
    /\ tag_name \in TagNames
    /\ max_workers \in (-1)..MaxWorkersArg
    /\ verbose \in BOOLEAN
    /\ embeddings = <<>>
    /\ emb_name = <<>>
    /\ pc = "get_dataset"
    /\ dirs \in {{}, {output_dir}}
    /\ InitLocals

InitEmbeddings ==
    /\ op \in {"download_embeddings_csv", "get_embedding_data_by_name"}
    /\ img_type = "FULL"
    /\ available_tags = <<>>
    /\ tag_name = "initial-tag"
    /\ max_workers = 8
    /\ verbose = TRUE
    /\ embeddings \in EmbeddingLists
    /\ emb_name \in (IF op = "get_embedding_data_by_name" THEN EmbNames ELSE {<<>>})
    /\ pc = "get_all_embedding_data"
    /\ dirs = {<<"tmp">>}
    /\ InitLocals

Init == InitDownload \/ InitEmbeddings

Raise(e) == raised' = e /\ pc' = "raised"

\* ----------------------------------------------- download_dataset: resolution
\* dataset = self._datasets_api.get_dataset_by_id(...); the img_type check
\* variant: the img_type check is left out
GetDatasetUnchecked ==
    /\ pc = "get_dataset"
    /\ calls' = Append(calls, "get_dataset_by_id")
    /\ pc' = "get_all_tags"
    /\ UNCHANGED <<inputs, raised, resolution, pool, warnings, disk, progress, returned>>

GetDataset ==
    /\ pc = "get_dataset"
    /\ calls' = Append(calls, "get_dataset_by_id")
    /\ IF img_type # "FULL" THEN Raise("ValueError")
       ELSE pc' = "get_all_tags" /\ UNCHANGED raised
    /\ UNCHANGED <<inputs, resolution, pool, warnings, disk, progress, returned>>

\* next(tag for tag in available_tags if tag.name == tag_name)
MatchingTags(tags, n) == {i \in 1..Len(tags) : tags[i].name = n}
FirstIndexIn(S) == CHOOSE i \in S : \A j \in S : i <= j

\* variant: a missing tag is not noticed here
GetAllTagsUnchecked ==
    /\ pc = "get_all_tags"
    /\ calls' = Append(calls, "get_all_tags")
    /\ LET found == MatchingTags(available_tags, tag_name) IN
       tag' = IF found = {} THEN NoTag ELSE available_tags[FirstIndexIn(found)]
    /\ pc' = "list_sample_ids"
    /\ UNCHANGED <<inputs, raised, sample_ids, indices, filenames, pool, warnings, disk,
                   progress, returned>>

GetAllTags ==
    /\ pc = "get_all_tags"
    /\ calls' = Append(calls, "get_all_tags")
    /\ LET found == MatchingTags(available_tags, tag_name) IN
       IF found = {} THEN Raise("ValueError") /\ UNCHANGED tag
       ELSE /\ tag' = available_tags[FirstIndexIn(found)]
            /\ pc' = "list_sample_ids"
            /\ UNCHANGED raised
    /\ UNCHANGED <<inputs, sample_ids, indices, filenames, pool, warnings, disk,
                   progress, returned>>

\* utils.paginate_endpoint(..., page_size=25000, ...): one request per page, the
\* last one being the first page shorter than page_size
RECURSIVE Repeat(_, _)
Repeat(x, n) == IF n <= 0 THEN <<>> ELSE <<x>> \o Repeat(x, n - 1)
PageRequests(n) == (n \div PageSize) + 1

ListSampleIds ==
    /\ pc = "list_sample_ids"
    /\ calls' = calls \o Repeat("get_sample_mappings_by_dataset_id",
                                PageRequests(Len(ServerSampleIds)))
    /\ sample_ids' = ServerSampleIds
    /\ pc' = "select_sample_ids"
    /\ UNCHANGED <<inputs, raised, tag, indices, filenames, pool, warnings, disk,
                   progress, returned>>

\* BitMask.from_hex(hexstring): int(hexstring, 16)
HexDigitValue(c) == (CHOOSE i \in 1..16 : HexDigits[i] = c) - 1
RECURSIVE FromHex(_)
FromHex(h) ==
    IF h = <<>> THEN 0
    ELSE 16 * FromHex(SubSeq(h, 1, Len(h) - 1)) + HexDigitValue(h[Len(h)])

\* BitMask.to_indices(): positions of the set bits, least significant first
RECURSIVE NonzeroBits(_, _)
NonzeroBits(x, offset) ==
    IF x = 0 THEN <<>>
    ELSE (IF x % 2 = 1 THEN <<offset>> ELSE <<>>) \o NonzeroBits(x \div 2, offset + 1)
ToIndices(x) == NonzeroBits(x, 0)

\* [lst[i] for i in idx]; IndexError when some i is not a position of lst
InRange(lst, idx) == \A k \in 1..Len(idx) : idx[k] < Len(lst)
\* variant: the first len(idx) elements instead of the elements at idx
SelectPrefix(lst, idx) == SubSeq(lst, 1, Len(idx))
SelectAt(lst, idx) == [k \in 1..Len(idx) |-> lst[idx[k] + 1]]

SelectSampleIds ==
    /\ pc = "select_sample_ids"
    /\ LET ix == ToIndices(FromHex(tag.bit_mask_data)) IN
       /\ indices' = ix
       /\ IF InRange(sample_ids, ix)
          THEN /\ sample_ids' = SelectAt(sample_ids, ix)
               /\ pc' = "get_filenames"
               /\ UNCHANGED raised
          ELSE Raise("IndexError") /\ UNCHANGED sample_ids
    /\ UNCHANGED <<inputs, calls, tag, filenames, pool, warnings, disk, progress,
                   returned>>

GetFilenames ==
    /\ pc = "get_filenames"
    /\ calls' = Append(calls, "get_filenames")
    /\ IF InRange(ServerFilenames, indices)
       THEN /\ filenames' = SelectAt(ServerFilenames, indices)
            /\ pc' = "start_pool"
            /\ UNCHANGED raised
       ELSE Raise("IndexError") /\ UNCHANGED filenames
    /\ UNCHANGED <<inputs, tag, sample_ids, indices, pool, warnings, disk, progress,
                   returned>>

\* ------------------------------------------------ download_dataset: the pool
\* max_workers = min(len(sample_ids), max_workers); max_workers = max(max_workers, 1)
\* variant: the lower clamp is missing
ClampWorkersNoFloor(n, requested) == Min(n, requested)
ClampWorkers(n, requested) == Max(Min(n, requested), 1)

\* the clamp, the progress bar, ThreadPoolExecutor(...) and executor.map, which
\* submits every item at once
StartPool ==
    /\ pc = "start_pool"
    /\ pool_size' = ClampWorkers(Len(sample_ids), max_workers)
    /\ ipc' = [k \in Items |-> "queued"]
    /\ mints' = [k \in Items |-> 0]
    /\ fetches' = [k \in Items |-> 0]
    /\ attempts' = [k \in Items |-> 0]
    /\ future' = [k \in Items |-> "pending"]
    /\ pc' = "map"
    /\ UNCHANGED <<inputs, raised, calls, resolution, results, warnings, disk,
                   progress, returned>>

Running(k) == ipc[k] \notin {"queued", "done"}
Busy == {k \in Items : Running(k)}

ItemWarning(k, e) ==
    [kind |-> "item", filename |-> filenames[k], error |-> e, index |-> -1]
AggregateWarning(i) ==
    [kind |-> "aggregate", filename |-> <<>>, error |-> "", index |-> i]

\* where lambda_ goes once success is set: the progress update, or the return
AfterAttempt == IF verbose THEN "acquire" ELSE "return"

\* variant: a failed item is warned about and tried again
ExceptRetry(k, e) ==
    /\ warnings' = Append(warnings, ItemWarning(k, e))
    /\ future' = future
    /\ ipc' = [ipc EXCEPT ![k] = "mint"]

\* except Exception as e: warnings.warn(...); success = False
Except(k, e) ==
    /\ warnings' = Append(warnings, ItemWarning(k, e))
    /\ future' = [future EXCEPT ![k] = "failing"]
    /\ ipc' = [ipc EXCEPT ![k] = AfterAttempt]

\* a free worker thread takes the oldest queued item and enters lambda_
StartItem(k) ==
    /\ pc = "map"
    /\ ipc[k] = "queued"
    /\ \A j \in 1..(k - 1) : ipc[j] # "queued"
    /\ Cardinality(Busy) < pool_size
    /\ ipc' = [ipc EXCEPT ![k] = "mint"]
    /\ attempts' = [attempts EXCEPT ![k] = @ + 1]
    /\ UNCHANGED <<inputs, pc, raised, calls, resolution, pool_size, mints, fetches,
                   future, results, warnings, disk, progress, returned>>

\* read_url = self._samples_api.get_sample_image_read_url_by_id(...)
MintReadUrl(k) ==
    /\ pc = "map"
    /\ ipc[k] = "mint"
    /\ mints' = [mints EXCEPT ![k] = @ + 1]
    /\ \/ ipc' = [ipc EXCEPT ![k] = "fetch"] /\ UNCHANGED <<warnings, future>>
       \/ Except(k, "ApiException")
    /\ UNCHANGED <<inputs, pc, raised, calls, resolution, pool_size, fetches,
                   attempts, results, disk, progress, returned>>

\* img = _get_image_from_read_url(read_url)
GetImageFromReadUrl(k) ==
    /\ pc = "map"
    /\ ipc[k] = "fetch"
    /\ fetches' = [fetches EXCEPT ![k] = @ + 1]
    /\ \/ ipc' = [ipc EXCEPT ![k] = "exists"] /\ UNCHANGED <<warnings, future>>
       \/ Except(k, "URLError")
       \/ Except(k, "UnidentifiedImageError")
    /\ UNCHANGED <<inputs, pc, raised, calls, resolution, pool_size, mints,
                   attempts, results, disk, progress, returned>>

\* path = os.path.join(output_dir, filename); head = os.path.split(path)[0]
PathOf(k) == output_dir \o filenames[k]
HeadOf(k) == SubSeq(PathOf(k), 1, Len(PathOf(k)) - 1)

\* if not os.path.exists(head):
CheckHeadExists(k) ==
    /\ pc = "map"
    /\ ipc[k] = "exists"
    /\ ipc' = [ipc EXCEPT ![k] = IF HeadOf(k) \in dirs THEN "save" ELSE "makedirs"]
    /\ UNCHANGED <<inputs, pc, raised, calls, resolution, pool_size, mints, fetches,
                   attempts, future, results, warnings, disk, progress, returned>>

\* os.makedirs(head): creates the missing ancestors and the leaf; the leaf
\* existing already is FileExistsError (exist_ok is not passed)
MakeDirs(k) ==
    /\ pc = "map"
    /\ ipc[k] = "makedirs"
    /\ IF HeadOf(k) \in dirs
       THEN Except(k, "FileExistsError") /\ UNCHANGED dirs
       ELSE /\ dirs' = dirs \cup Prefixes(HeadOf(k))
            /\ ipc' = [ipc EXCEPT ![k] = "save"]
            /\ UNCHANGED <<warnings, future>>
    /\ UNCHANGED <<inputs, pc, raised, calls, resolution, pool_size, mints, fetches,
                   attempts, results, files, progress, returned>>

WriteFile(fs, p, c) == {f \in fs : f.path # p} \cup {[path |-> p, content |-> c]}

\* variant: a save that left a partial file still counts as a success
SaveImageUnchecked(k) ==
    /\ pc = "map"
    /\ ipc[k] = "save"
    /\ files' \in {WriteFile(files, PathOf(k), "full"), WriteFile(files, PathOf(k), "partial")}
    /\ future' = [future EXCEPT ![k] = "succeeding"]
    /\ ipc' = [ipc EXCEPT ![k] = AfterAttempt]
    /\ UNCHANGED <<inputs, pc, raised, calls, resolution, pool_size, mints, fetches,
                   attempts, results, warnings, dirs, progress, returned>>

\* img.save(path); img.close(); success = True.  A save that raises has
\* written nothing or has left a partial file, depending on where it failed.
SaveImage(k) ==
    /\ pc = "map"
    /\ ipc[k] = "save"
    /\ \/ /\ files' = WriteFile(files, PathOf(k), "full")
          /\ future' = [future EXCEPT ![k] = "succeeding"]
          /\ ipc' = [ipc EXCEPT ![k] = AfterAttempt]
          /\ UNCHANGED warnings
       \/ /\ files' \in {files, WriteFile(files, PathOf(k), "partial")}
          /\ Except(k, "OSError")
    /\ UNCHANGED <<inputs, pc, raised, calls, resolution, pool_size, mints, fetches,
                   attempts, results, dirs, progress, returned>>

\* variant: the lock is taken without waiting for its holder
AcquireLockNoWait(k) ==
    /\ pc = "map"
    /\ ipc[k] = "acquire"
    /\ tqdm_lock' = k
    /\ lock_ops' = lock_ops + 1
    /\ ipc' = [ipc EXCEPT ![k] = "update"]
    /\ UNCHANGED <<inputs, pc, raised, calls, resolution, pool_size, mints, fetches,
                   attempts, future, results, warnings, disk, pbar_n, returned>>

\* tqdm_lock.acquire()
AcquireLock(k) ==
    /\ pc = "map"
    /\ ipc[k] = "acquire"
    /\ tqdm_lock = 0
    /\ tqdm_lock' = k
    /\ lock_ops' = lock_ops + 1
    /\ ipc' = [ipc EXCEPT ![k] = "update"]
    /\ UNCHANGED <<inputs, pc, raised, calls, resolution, pool_size, mints, fetches,
                   attempts, future, results, warnings, disk, pbar_n, returned>>

\* pbar.update(1)
UpdateProgress(k) ==
    /\ pc = "map"
    /\ ipc[k] = "update"
    /\ pbar_n' = pbar_n + 1
    /\ ipc' = [ipc EXCEPT ![k] = "release"]
    /\ UNCHANGED <<inputs, pc, raised, calls, resolution, pool_size, mints, fetches,
                   attempts, future, results, warnings, disk, tqdm_lock, lock_ops,
                   returned>>

\* tqdm_lock.release()
ReleaseLock(k) ==
    /\ pc = "map"
    /\ ipc[k] = "release"
    /\ tqdm_lock' = 0
    /\ lock_ops' = lock_ops + 1
    /\ ipc' = [ipc EXCEPT ![k] = "return"]
    /\ UNCHANGED <<inputs, pc, raised, calls, resolution, pool_size, mints, fetches,
                   attempts, future, results, warnings, disk, pbar_n, returned>>

\* return success: the item's future is resolved and the worker is free again
ReturnSuccess(k) ==
    /\ pc = "map"
    /\ ipc[k] = "return"
    /\ future' = [future EXCEPT ![k] = IF @ = "succeeding" THEN "True" ELSE "False"]
    /\ ipc' = [ipc EXCEPT ![k] = "done"]
    /\ UNCHANGED <<inputs, pc, raised, calls, resolution, pool_size, mints, fetches,
                   attempts, results, warnings, disk, progress, returned>>

\* variant: the position of the item that failed first in time
IndexOfFirstWarned(rs) ==
    (CHOOSE k \in 1..Len(rs) : filenames[k] = warnings[1].filename) - 1

\* results.index(False), a 0-based position
IndexOfFalse(rs) == (CHOOSE i \in 1..Len(rs) : ~rs[i] /\ \A j \in 1..(i - 1) : rs[j]) - 1

\* results = list(executor.map(...)) yields the values in submission order once
\* every future is resolved; then the aggregate warning
CollectResults ==
    /\ pc = "map"
    /\ \A k \in Items : ipc[k] = "done"
    /\ LET rs == [k \in Items |-> future[k] = "True"] IN
       /\ results' = rs
       /\ IF \A k \in Items : rs[k]
          THEN UNCHANGED warnings
          ELSE warnings' = Append(warnings, AggregateWarning(IndexOfFalse(rs)))
    /\ pc' = "done"
    /\ UNCHANGED <<inputs, raised, calls, resolution, pool_size, ipc, mints, fetches,
                   attempts, future, disk, progress, returned>>

\* ------------------------------------------------------- embedding helpers
\* self._embeddings_api.get_embeddings_by_dataset_id(...)
GetAllEmbeddingData ==
    /\ pc = "get_all_embedding_data"
    /\ calls' = Append(calls, "get_embeddings_by_dataset_id")
    /\ pc' = IF op = "download_embeddings_csv" THEN "latest_default" ELSE "by_name"
    /\ UNCHANGED <<inputs, raised, resolution, pool, warnings, disk, progress,
                   returned>>

\* for embedding_data in ...: if embedding_data.name == name: return embedding_data
GetEmbeddingDataByName ==
    /\ pc = "by_name"
    /\ LET found == {i \in 1..Len(embeddings) : embeddings[i].name = emb_name} IN
       IF found = {} THEN Raise("ValueError") /\ UNCHANGED returned
       ELSE /\ returned' = embeddings[FirstIndexIn(found)]
            /\ pc' = "done"
            /\ UNCHANGED raised
    /\ UNCHANGED <<inputs, calls, resolution, pool, warnings, disk, progress>>

\* [e for e in embeddings if e.name.startswith("default")]
RECURSIVE DefaultEmbeddings(_)
DefaultEmbeddings(es) ==
    IF es = <<>> THEN <<>>
    ELSE (IF StartsWith(Head(es).name, default_prefix) THEN <<Head(es)>> ELSE <<>>)
         \o DefaultEmbeddings(Tail(es))

\* sorted(..., key=lambda e: e.created_at): stable, ascending
RECURSIVE InsertByCreatedAt(_, _)
InsertByCreatedAt(sorted, e) ==
    IF sorted = <<>> THEN <<e>>
    ELSE IF sorted[Len(sorted)].created_at <= e.created_at THEN Append(sorted, e)
    ELSE Append(InsertByCreatedAt(SubSeq(sorted, 1, Len(sorted) - 1), e),
                sorted[Len(sorted)])
RECURSIVE SortedByCreatedAt(_)
SortedByCreatedAt(es) ==
    IF es = <<>> THEN <<>>
    ELSE InsertByCreatedAt(SortedByCreatedAt(SubSeq(es, 1, Len(es) - 1)), es[Len(es)])

\* variant: the name filter is missing
LatestEmbeddingData(es) ==
    IF es # <<>> THEN SortedByCreatedAt(es)[Len(es)] ELSE NoEmbedding

\* _get_latest_default_embedding_data; NoEmbedding stands for None
LatestDefaultEmbeddingData(es) ==
    LET default_embeddings == DefaultEmbeddings(es) IN
    IF default_embeddings # <<>>
    THEN SortedByCreatedAt(default_embeddings)[Len(default_embeddings)]
    ELSE NoEmbedding

\* last_embedding = _get_latest_default_embedding_data(...); the None check
SelectLatestDefault ==
    /\ pc = "latest_default"
    /\ returned' = LatestDefaultEmbeddingData(embeddings)
    /\ IF returned' = NoEmbedding THEN Raise("RuntimeError")
       ELSE pc' = "csv_read_url" /\ UNCHANGED raised
    /\ UNCHANGED <<inputs, calls, resolution, pool, warnings, disk, progress>>

\* download_embeddings_csv_by_id: the signed URL
MintCsvReadUrl ==
    /\ pc = "csv_read_url"
    /\ calls' = Append(calls, "get_embeddings_csv_read_url_by_id")
    /\ pc' = "csv_download"
    /\ UNCHANGED <<inputs, raised, resolution, pool, warnings, disk, progress,
                   returned>>

\* download.download_and_write_file(url=read_url, output_path=output_path)
DownloadAndWriteFile ==
    /\ pc = "csv_download"
    /\ calls' = Append(calls, "download_and_write_file")
    /\ files' = WriteFile(files, output_path, "full")
    /\ pc' = "done"
    /\ UNCHANGED <<inputs, raised, resolution, pool, warnings, dirs, progress,
                   returned>>

\* ------------------------------------------------------------ specification
Next ==
    \/ GetDataset
    \/ GetAllTags
    \/ ListSampleIds
    \/ SelectSampleIds
    \/ GetFilenames
    \/ StartPool
    \/ \E k \in Items : StartItem(k)
    \/ \E k \in Items : MintReadUrl(k)
    \/ \E k \in Items : GetImageFromReadUrl(k)
    \/ \E k \in Items : CheckHeadExists(k)
    \/ \E k \in Items : MakeDirs(k)
    \/ \E k \in Items : SaveImage(k)
    \/ \E k \in Items : AcquireLock(k)
    \/ \E k \in Items : UpdateProgress(k)
    \/ \E k \in Items : ReleaseLock(k)
    \/ \E k \in Items : ReturnSuccess(k)
    \/ CollectResults
    \/ GetAllEmbeddingData
    \/ GetEmbeddingDataByName
    \/ SelectLatestDefault
    \/ MintCsvReadUrl
    \/ DownloadAndWriteFile

Spec == Init /\ [][Next]_vars

\* ------------------------------------------------------------------ claims
Downloading == op = "download_dataset" /\ pc \in {"map", "done"}
Completed == op = "download_dataset" /\ pc = "done"
ItemWarnings(k) ==
    {i \in 1..Len(warnings) :
        warnings[i].kind = "item" /\ warnings[i].filename = filenames[k]}
AggregateWarnings == {i \in 1..Len(warnings) : warnings[i].kind = "aggregate"}
Failed == {k \in Items : future[k] = "False"}
FileAt(p, c) == [path |-> p, content |-> c] \in files

\* C1: whatever subset of items fails in URL minting, fetch/decode or save, the
\* batch runs on: no exception leaves download_dataset, while the pool runs some
\* step is always possible, no item is entered, minted or fetched more than once,
\* and at completion every item was attempted exactly once, with a failing item
\* having exactly one per-item warning and a False result.
C1_BatchRunsToCompletion ==
    Downloading =>
        /\ raised = "none"
        /\ pc = "map" => ENABLED Next
        /\ \A k \in Items : attempts[k] <= 1 /\ mints[k] <= 1 /\ fetches[k] <= 1
        /\ \A k \in Items : Cardinality(ItemWarnings(k)) <= 1
        /\ \A k \in Items : ipc[k] = "done" =>
              (future[k] = "False" <=> ItemWarnings(k) # {})
        /\ pc = "done" =>
              \A k \in Items :
                 /\ attempts[k] = 1
                 /\ ipc[k] = "done"
                 /\ results[k] = (ItemWarnings(k) = {})

\* an earlier item failed, a later one was still attempted and succeeded
C1_Witness ==
    /\ Completed
    /\ Len(filenames) = 2
    /\ results = <<FALSE, TRUE>>
    /\ attempts = <<1, 1>>
    /\ Cardinality(ItemWarnings(1)) = 1

\* C2: no aggregate warning before the batch has completed; at completion there
\* is exactly one if some item failed and none otherwise, it is the last warning
\* and its index is the smallest 0-based submission position of a failed item.
C2_AggregateWarning ==
    op = "download_dataset" =>
        /\ pc # "done" => AggregateWarnings = {}
        /\ pc = "done" =>
              IF Failed = {} THEN AggregateWarnings = {}
              ELSE /\ AggregateWarnings = {Len(warnings)}
                   /\ \E k \in Failed :
                         /\ \A j \in Failed : k <= j
                         /\ warnings[Len(warnings)].index = k - 1

\* the second item failed first in time, the aggregate warning names the first
C2_Witness ==
    /\ Completed
    /\ Len(warnings) = 3
    /\ warnings[1].kind = "item" /\ warnings[1].filename = filenames[2]
    /\ warnings[2].kind = "item" /\ warnings[2].filename = filenames[1]
    /\ warnings[3].kind = "aggregate" /\ warnings[3].index = 0

NoSuchTag == \A i \in 1..Len(available_tags) : available_tags[i].name # tag_name

\* C3: with downloadable images and a tag name that no tag carries, the method
\* raises ValueError right after the tag list was fetched and does nothing
\* further: no sample-id page, no filename list, no task, no signed URL, no
\* image download, nothing on disk.
C3_MissingTagRaisesFirst ==
    (op = "download_dataset" /\ img_type = "FULL" /\ NoSuchTag) =>
        /\ pc \in {"get_dataset", "get_all_tags", "raised"}
        /\ pc = "raised" =>
              /\ raised = "ValueError"
              /\ calls = <<"get_dataset_by_id", "get_all_tags">>
              /\ ~ENABLED Next
        /\ \A i \in 1..Len(calls) :
              calls[i] \notin {"get_sample_mappings_by_dataset_id", "get_filenames"}
        /\ sample_ids = <<>> /\ filenames = <<>>
        /\ ipc = <<>> /\ mints = <<>> /\ fetches = <<>>
        /\ files = {}

C3_Witness ==
    /\ op = "download_dataset"
    /\ available_tags # <<>>
    /\ NoSuchTag
    /\ raised = "ValueError"
    /\ Len(calls) = 2

\* C4: once both lists are selected, sample_ids, filenames and indices have the
\* same length, indices is strictly ascending, position k of both subsets is the
\* server's entry at dataset position indices[k], and exactly these pairs are
\* submitted, one task per position.
C4_IndexAlignment ==
    (op = "download_dataset" /\ pc \in {"start_pool", "map", "done"}) =>
        /\ Len(sample_ids) = Len(indices)
        /\ Len(filenames) = Len(indices)
        /\ \A k \in 1..Len(indices) :
              /\ indices[k] \in 0..(NumSamples - 1)
              /\ sample_ids[k] = ServerSampleIds[indices[k] + 1]
              /\ filenames[k] = ServerFilenames[indices[k] + 1]
              /\ \A j \in 1..(k - 1) : indices[j] < indices[k]
        /\ pc # "start_pool" => DOMAIN ipc = 1..Len(indices)

\* a selection that is not a prefix of the dataset
C4_Witness ==
    /\ op = "download_dataset"
    /\ pc = "map"
    /\ indices = <<1>>
    /\ sample_ids = <<"id_b">>
    /\ filenames = << <<"d", "b.png">> >>

\* C5: the pool is created with max(1, min(max_workers, n)) workers: 1 when
\* max_workers < 1 or n = 0, n when max_workers > n >= 1, max_workers otherwise;
\* never more tasks run at once than that; with n = 0 the batch can complete at
\* once and completes without any warning.
C5_WorkerClamp ==
    Downloading =>
        LET n == Len(sample_ids) IN
        /\ pool_size >= 1
        /\ n >= 1 => pool_size <= n
        /\ pool_size = (IF n = 0 \/ max_workers < 1 THEN 1
                        ELSE IF max_workers > n THEN n ELSE max_workers)
        /\ Cardinality(Busy) <= pool_size
        /\ n = 0 => /\ pool_size = 1
                    /\ warnings = <<>>
                    /\ pc = "map" => ENABLED CollectResults

\* more workers requested than items: both items run at once, no third worker
C5_Witness ==
    /\ Downloading
    /\ max_workers = 3
    /\ Len(sample_ids) = 2
    /\ pool_size = 2
    /\ Cardinality(Busy) = 2

HasDefaultPrefix(n) ==
    /\ Len(n) >= 7
    /\ \A j \in 1..7 : n[j] = default_prefix[j]
DefaultPositions == {i \in 1..Len(embeddings) : HasDefaultPrefix(embeddings[i].name)}

\* C6: in download_embeddings_csv, once the latest default embedding was looked
\* up: if no descriptor's name starts with "default" the lookup gave None and
\* RuntimeError was raised with no download call and no file; otherwise it gave
\* one of the descriptors with that prefix, whose created_at is at least that
\* of every descriptor with the prefix.
C6_LatestDefault ==
    (op = "download_embeddings_csv" /\ pc \in {"raised", "csv_read_url", "csv_download", "done"}) =>
        IF DefaultPositions = {}
        THEN /\ returned = NoEmbedding
             /\ raised = "RuntimeError"
             /\ calls = <<"get_embeddings_by_dataset_id">>
             /\ files = {}
        ELSE /\ raised = "none"
             /\ \E i \in DefaultPositions : returned = embeddings[i]
             /\ \A i \in DefaultPositions : returned.created_at >= embeddings[i].created_at

\* a newer descriptor without the prefix is passed over
C6_Witness ==
    /\ op = "download_embeddings_csv"
    /\ pc = "done"
    /\ Len(embeddings) = 2
    /\ ~HasDefaultPrefix(embeddings[2].name)
    /\ embeddings[2].created_at > embeddings[1].created_at
    /\ returned = embeddings[1]

PreconditionError == raised \in {"ValueError", "RuntimeError"}

\* C7 as stated: a precondition error is raised before any network or file work
\* of the operation.
C7_NoWorkBeforeError ==
    PreconditionError => calls = <<>> /\ files = {}

\* C7 amended: a precondition error is raised after only the metadata requests
\* its check reads (the dataset record; then the tag list; the embedding list),
\* ends the operation, and precedes every listing, signed-URL, download and
\* file-system step.
C7_OnlyLookupsBeforeError ==
    PreconditionError =>
        /\ pc = "raised"
        /\ ~ENABLED Next
        /\ calls = (IF op # "download_dataset" THEN <<"get_embeddings_by_dataset_id">>
                    ELSE IF img_type # "FULL" THEN <<"get_dataset_by_id">>
                    ELSE <<"get_dataset_by_id", "get_all_tags">>)
        /\ ipc = <<>> /\ mints = <<>> /\ fetches = <<>>
        /\ files = {}
        /\ dirs \in {{}, {output_dir}, {<<"tmp">>}}

C7_Witness ==
    /\ op = "download_dataset"
    /\ img_type # "FULL"
    /\ raised = "ValueError"
    /\ calls = <<"get_dataset_by_id">>

\* C8 as stated: the check-then-create race on a shared parent directory is
\* tolerated: no task fails because the directory exists by the time it
\* creates it, so a task whose minting, fetch and save did not raise has written
\* its file and is a success.
C8_DirectoryRaceTolerated ==
    Downloading =>
        /\ \A i \in 1..Len(warnings) : warnings[i].error # "FileExistsError"
        /\ pc = "done" =>
              \A k \in Items :
                 (\A i \in ItemWarnings(k) :
                     warnings[i].error \notin {"ApiException", "URLError",
                                               "UnidentifiedImageError", "OSError"})
                 => results[k] /\ FileAt(PathOf(k), "full")

Inside == {k \in Items : ipc[k] \in {"update", "release"}}
Counted == {k \in Items : ipc[k] \in {"release", "return", "done"}}
Released == {k \in Items : ipc[k] \in {"return", "done"}}

\* C9: with verbose, the counter equals the number of items that have passed
\* their update, each of which has finished its attempt; at most one task is
\* between acquire and release and it is the holder of the lock, which is free
\* otherwise; the counter only ever moves by one, in a step taken by the holder;
\* at completion it equals the number of items.  Without verbose the counter
\* and the lock are never touched.
C9_ProgressUnderLock ==
    /\ [](Downloading =>
            /\ Cardinality(Inside) <= 1
            /\ tqdm_lock = 0 <=> Inside = {}
            /\ tqdm_lock # 0 => Inside = {tqdm_lock}
            /\ \A k \in Items : ipc[k] \in {"acquire", "update"} => future[k] # "pending"
            /\ verbose => /\ pbar_n = Cardinality(Counted)
                          /\ lock_ops = 2 * Cardinality(Released) + Cardinality(Inside)
                          /\ pc = "done" => pbar_n = Len(filenames) /\ tqdm_lock = 0
            /\ ~verbose => pbar_n = 0 /\ tqdm_lock = 0 /\ lock_ops = 0)
    /\ [][pbar_n' # pbar_n =>
            /\ pbar_n' = pbar_n + 1
            /\ tqdm_lock # 0
            /\ tqdm_lock' = tqdm_lock
            /\ ipc[tqdm_lock] = "update"]_vars

\* one task is in its update while the other waits for the lock
C9_Witness ==
    /\ Downloading
    /\ verbose
    /\ Len(filenames) = 2
    /\ ipc[2] = "update"
    /\ ipc[1] = "acquire"
    /\ tqdm_lock = 2

\* C10 as stated: at completion an item is fully written and a success, or a
\* failure with a warning that left nothing on disk: every file is the full
\* file of a successful item and every directory below output_dir leads to one.
C10_NothingLeftBehind ==
    Completed =>
        /\ \A k \in Items :
              IF results[k] THEN FileAt(PathOf(k), "full")
              ELSE ItemWarnings(k) # {}
        /\ \A f \in files : \E k \in Items : results[k] /\ f = [path |-> PathOf(k), content |-> "full"]
        /\ \A d \in dirs \ {output_dir} : \E k \in Items : results[k] /\ d \in Prefixes(HeadOf(k))

\* C10 amended: at completion every successful item has its full file at
\* output_dir joined with its filename, in an existing directory, and no
\* warning; every failed item has exactly one warning; a failed item may have
\* left behind the directory it created and a partial file.
C10_WrittenOrWarned ==
    Completed =>
        \A k \in Items :
           IF results[k]
           THEN /\ FileAt(PathOf(k), "full")
                /\ ~FileAt(PathOf(k), "partial")
                /\ HeadOf(k) \in dirs
                /\ ItemWarnings(k) = {}
           ELSE Cardinality(ItemWarnings(k)) = 1

\* the only item failed in its save and left its directory and a partial file
C10_Witness ==
    /\ Completed
    /\ Len(filenames) = 1
    /\ results = <<FALSE>>
    /\ warnings[1].error = "OSError"
    /\ FileAt(PathOf(1), "partial")
    /\ HeadOf(1) \in dirs
    /\ HeadOf(1) # output_dir

====
